---- MODULE Spec2Model ----
(***************************************************************************)
(* Route-safety scoring service (src/api/index.js).                        *)
(*                                                                         *)
(* The Express handler of POST /classify_route validates the body, spawns  *)
(* one Python subprocess per request, pipes the routes to it, accumulates  *)
(* its stdout/stderr, arms a 30 s timer and answers from the 'close'       *)
(* event.  The Python script (classify_routes) loads the model and the     *)
(* dataset, scores the routes one after the other and prints one JSON      *)
(* value.                                                                  *)
(*                                                                         *)
(* Scores are kept in units of 1e-4 (0.9000 is 9000), times in ms.         *)
(***************************************************************************)
EXTENDS Integers, Sequences, FiniteSets, TLC

(***************************************************************************)
(* Bounds and program constants                                            *)
(***************************************************************************)
MaxRoutes == 2          \* routes per request body
MaxLen == 3             \* points per route in the aggregator's own check
MaxReq == 2             \* request slots of the server
TICK_MS == 15000        \* granularity of the clock
TIMEOUT_MS == 30000     \* setTimeout( ..., 30000 )
INDICATOR_SCALE == 10   \* div = len(y_pred) * 10
SCORE_UNIT == 10000     \* f"{score:.4f}": scores in units of 1e-4
MAX_INDICATOR == 9      \* label range of the classifier

Reqs == 1 .. MaxReq
Served == {1}           \* the requests that arrive in Spec


(***************************************************************************)
(* JSON values: request bodies, the subprocess's output, response bodies   *)
(***************************************************************************)
\* a coordinate is a JSON number or a JSON string (lat: number|string)
CNum(n) == [num |-> TRUE, n |-> n, s |-> ""]
CStr(s) == [num |-> FALSE, n |-> 0, s |-> s]

PA == [lat |-> CNum(41), lng |-> CNum(-87)]
PB == [lat |-> CStr("42"), lng |-> CStr("-88")]
PBad == [lat |-> CStr("abc"), lng |-> CNum(-87)]

\* the routes a body is built from
RouteShapes == {<< >>, <<PA>>, <<PB>>, <<PA, PB>>, <<PA, PBad>>}

SeqsUpTo(S, n) == UNION {[1 .. k -> S] : k \in 0 .. n}

\* req.body after bodyParser.json: an array of routes, or a JSON object
ArrayBody(rs) == [isArray |-> TRUE, routes |-> rs]
ObjectBody == [isArray |-> FALSE, routes |-> << >>]
Bodies == {ObjectBody} \cup {ArrayBody(rs) : rs \in SeqsUpTo(RouteShapes, MaxRoutes)}

JNull == [t |-> "null", num |-> 0, arr |-> << >>, err |-> "", det |-> << >>]
JNum(x) == [t |-> "num", num |-> x, arr |-> << >>, err |-> "", det |-> << >>]
JArr(a) == [t |-> "arr", num |-> 0, arr |-> a, err |-> "", det |-> << >>]
JErr(e) == [t |-> "obj", num |-> 0, arr |-> << >>, err |-> e, det |-> << >>]
JErrDet(e, d) == [t |-> "obj", num |-> 0, arr |-> << >>, err |-> e, det |-> d]

\* the text written to stdout, as tokens
Tok(k, v, s) == [k |-> k, v |-> v, s |-> s]
TNum(v) == Tok("num", v, "")
TStr(s) == Tok("str", 0, s)
LB == Tok("[", 0, "")
RB == Tok("]", 0, "")
LC == Tok("{", 0, "")
RC == Tok("}", 0, "")
NL == Tok("nl", 0, "")

\* json.dumps( ..., cls=FloatEncoder )
dumps(j) ==
    CASE j.t = "num" -> <<TNum(j.num)>>
      [] j.t = "arr" -> <<LB>> \o [i \in 1 .. Len(j.arr) |-> TNum(j.arr[i])] \o <<RB>>
      [] OTHER -> <<LC, TStr(j.err), RC>>

\* String.prototype.trim on the accumulated output
RECURSIVE trim(_)
trim(toks) ==
    IF toks = << >> THEN << >>
    ELSE IF toks[Len(toks)] = NL THEN trim(SubSeq(toks, 1, Len(toks) - 1))
    ELSE IF toks[1] = NL THEN trim(Tail(toks))
    ELSE toks

\* JSON.parse (white space around the value is skipped): ok = FALSE when it throws
JSONparse(text) ==
    LET toks == trim(text) IN
    IF Len(toks) = 1 /\ toks[1].k = "num"
    THEN [ok |-> TRUE, val |-> JNum(toks[1].v)]
    ELSE IF Len(toks) >= 2 /\ toks[1] = LB /\ toks[Len(toks)] = RB
            /\ \A i \in 2 .. Len(toks) - 1 : toks[i].k = "num"
    THEN [ok |-> TRUE, val |-> JArr([i \in 1 .. Len(toks) - 2 |-> toks[i + 1].v])]
    ELSE IF Len(toks) = 3 /\ toks[1] = LC /\ toks[2].k = "str" /\ toks[3] = RC
    THEN [ok |-> TRUE, val |-> JErr(toks[2].s)]
    ELSE [ok |-> FALSE, val |-> JNull]

(***************************************************************************)
(* The Python script                                                       *)
(***************************************************************************)
\* float(point['lat']): ok = FALSE when it raises ValueError
float(c) ==
    IF c.num THEN [ok |-> TRUE, v |-> c.n]
    ELSE CASE c.s = "42" -> [ok |-> TRUE, v |-> 42]
           [] c.s = "-88" -> [ok |-> TRUE, v |-> -88]
           [] OTHER -> [ok |-> FALSE, v |-> 0]

\* l = [float(point['lat']), float(point['lng'])]
location(p) == <<float(p.lat).v, float(p.lng).v>>
parses(p) == float(p.lat).ok /\ float(p.lng).ok

GoodLocations == {location(p) : p \in {PA, PB}}
SampleIndicators == {0, 4, MAX_INDICATOR}
Indicators == 0 .. MAX_INDICATOR
\* xgb_clf.predict after scaler.transform, at one request's reference time:
\* an opaque function of the location
Classifiers == [GoodLocations -> SampleIndicators]
NoClassifier == [l \in GoodLocations |-> 0]

RECURSIVE sum(_)
sum(s) == IF s = << >> THEN 0 ELSE s[1] + sum(Tail(s))

\* a variant that truncates after the 4th decimal instead of rounding
round4_truncating(num, den) == (num * SCORE_UNIT) \div den

\* f"{score:.4f}" of num / den, in units of 1e-4 (den > 0).  The format rounds
\* to the nearest; an exact tie needs n * 10 to be a multiple of 32, which no
\* route length within the bounds gives.
round4(num, den) == (2 * num * SCORE_UNIT + den) \div (2 * den)

\* sum_val / div, formatted to 4 decimals and read back
aggregate(y_pred) == round4(sum(y_pred), Len(y_pred) * INDICATOR_SCALE)

\* a number as decimal digits of the given width, and back
RECURSIVE digits(_, _)
digits(n, width) == IF width = 0 THEN << >> ELSE Append(digits(n \div 10, width - 1), n % 10)
RECURSIVE number(_)
number(ds) == IF ds = << >> THEN 0 ELSE 10 * number(SubSeq(ds, 1, Len(ds) - 1)) + ds[Len(ds)]

\* time_data = [now.strftime("%Y-%m-%d"), now.strftime("%H:%M:%S")]
time_data(t) ==
    <<[Y |-> digits(t.year, 4), m |-> digits(t.month, 2), d |-> digits(t.day, 2)],
      [H |-> digits(t.hour, 2), M |-> digits(t.minute, 2), S |-> digits(t.second, 2)]>>

\* pd.to_datetime of the Date column and of the Time column
to_datetime_date(text) == [year |-> number(text.Y), month |-> number(text.m), day |-> number(text.d)]
to_datetime_time(text) == [hour |-> number(text.H), minute |-> number(text.M), second |-> number(text.S)]

\* new_df[[0, 1, 2, 3, 4]] of one route: lat, lng, month, hour, minute
feature_rows(route, td) ==
    [i \in 1 .. Len(route) |->
        <<location(route[i])[1], location(route[i])[2],
          to_datetime_date(td[1]).month,
          to_datetime_time(td[2]).hour, to_datetime_time(td[2]).minute>>]

\* a variant that reads the clock again for every route
features_clock_per_route(routes, t) ==
    [r \in 1 .. Len(routes) |->
        feature_rows(routes[r], time_data([t EXCEPT !.minute = (t.minute + r - 1) % 60]))]

\* the rows of every route of a batch, time_data being taken once
features(routes, t) ==
    [r \in 1 .. Len(routes) |-> feature_rows(routes[r], time_data(t))]

\* the environment of one run of the script
EnvOutcomes == {"ok", "no_model", "no_dataset", "import_error"}

Raised(msg, log) == [raised |-> TRUE, msg |-> msg, results |-> << >>, log |-> log]

\* a variant that skips a route it cannot score and goes on with the next
RECURSIVE score_loop_skipping(_, _, _, _)
score_loop_skipping(routes, clf, results, log) ==
    IF routes = << >>
    THEN [raised |-> FALSE, msg |-> "", results |-> results, log |-> log]
    ELSE LET route == Head(routes) IN
         IF (\E i \in 1 .. Len(route) : ~parses(route[i])) \/ Len(route) = 0
         THEN score_loop_skipping(Tail(routes), clf, results, log)
         ELSE LET y_pred == [i \in 1 .. Len(route) |-> clf[location(route[i])]]
                  score == aggregate(y_pred)
              IN score_loop_skipping(Tail(routes), clf, Append(results, score),
                                     Append(log, "Debug - Raw score"))

\* a variant whose sum_val is not reset between the routes of a batch
RECURSIVE score_loop_carrying(_, _, _, _)
score_loop_carrying(routes, clf, results, log) ==
    IF routes = << >>
    THEN [raised |-> FALSE, msg |-> "", results |-> results, log |-> log]
    ELSE LET route == Head(routes) IN
         IF \E i \in 1 .. Len(route) : ~parses(route[i])
         THEN Raised("could not convert string to float", log)
         ELSE IF Len(route) = 0
         THEN Raised("Found array with 0 sample(s)", log)
         ELSE LET y_pred == [i \in 1 .. Len(route) |-> clf[location(route[i])]]
                  carried == IF results = << >> THEN 0 ELSE results[Len(results)]
                  score == aggregate(y_pred) + carried
              IN score_loop_carrying(Tail(routes), clf, Append(results, score),
                                     Append(log, "Debug - Raw score"))

\* for route in routes: ... results.append(score)
RECURSIVE score_loop(_, _, _, _)
score_loop(routes, clf, results, log) ==
    IF routes = << >>
    THEN [raised |-> FALSE, msg |-> "", results |-> results, log |-> log]
    ELSE LET route == Head(routes) IN
         IF \E i \in 1 .. Len(route) : ~parses(route[i])
         THEN Raised("could not convert string to float", log)
         ELSE IF Len(route) = 0
         THEN Raised("Found array with 0 sample(s)", log)
         ELSE LET y_pred == [i \in 1 .. Len(route) |-> clf[location(route[i])]]
                  score == aggregate(y_pred)
              IN score_loop(Tail(routes), clf, Append(results, score),
                            Append(log, "Debug - Raw score"))

\* a variant that always returns the list, also for a single route
classify_routes_always_list(routes, e, clf) ==
    LET inner == IF e = "no_model" THEN Raised("model.pkl: No such file", << >>)
                 ELSE IF e = "no_dataset" THEN Raised("Processed_crime.csv: No such file", << >>)
                 ELSE score_loop(routes, clf, << >>, << >>)
        called == [loads |-> IF e = "no_model" THEN {}
                             ELSE IF e = "no_dataset" THEN {"model"}
                             ELSE {"model", "dataset"},
                   predicts |-> Len(inner.log)]
    IN IF inner.raised
       THEN [out |-> dumps(JErr(inner.msg)), calls |-> called,
             log |-> inner.log \o <<"Error in model processing", "Error in classify_routes">>]
       ELSE [out |-> dumps(JArr(inner.results)), calls |-> called, log |-> inner.log]

\* a variant that returns the results in reverse order
classify_routes_reversed(routes, e, clf) ==
    LET r == classify_routes_always_list(routes, e, clf)
        n == Len(routes)
        inner == score_loop(routes, clf, << >>, << >>)
    IN IF e # "ok" \/ inner.raised THEN r
       ELSE IF n = 1 THEN [r EXCEPT !.out = dumps(JNum(inner.results[1]))]
       ELSE [r EXCEPT !.out = dumps(JArr([i \in 1 .. n |-> inner.results[n + 1 - i]]))]

\* a variant that reports an empty list of results as an error
classify_routes_empty_is_error(routes, e, clf) ==
    LET r == classify_routes_always_list(routes, e, clf)
        inner == score_loop(routes, clf, << >>, << >>)
    IN IF e # "ok" \/ inner.raised THEN r
       ELSE IF Len(inner.results) = 0
       THEN [r EXCEPT !.out = dumps(JErr("no routes"))]
       ELSE IF Len(inner.results) = 1
       THEN [r EXCEPT !.out = dumps(JNum(inner.results[1]))]
       ELSE r

\* classify_routes(routes_json): the text it returns and what it logs
classify_routes(routes, e, clf) ==
    LET inner == IF e = "no_model" THEN Raised("model.pkl: No such file", << >>)
                 ELSE IF e = "no_dataset" THEN Raised("Processed_crime.csv: No such file", << >>)
                 ELSE score_loop(routes, clf, << >>, << >>)
        \* pickle.load( f ), pd.read_csv( data_path )
        loaded == IF e = "no_model" THEN {}
                  ELSE IF e = "no_dataset" THEN {"model"}
                  ELSE {"model", "dataset"}
        \* xgb_clf.predict ran once for every route that was scored
        called == [loads |-> loaded, predicts |-> Len(inner.log)]
    IN IF inner.raised
       THEN [out |-> dumps(JErr(inner.msg)), calls |-> called,
             log |-> inner.log \o <<"Error in model processing", "Error in classify_routes">>]
       ELSE IF Len(inner.results) = 1
       THEN [out |-> dumps(JNum(inner.results[1])), calls |-> called, log |-> inner.log]
       ELSE [out |-> dumps(JArr(inner.results)), calls |-> called, log |-> inner.log]

NoCalls == [loads |-> {}, predicts |-> 0]

\* the script as a process: what it writes to stdout and stderr, its exit code
script_main(routes, e, clf) ==
    IF e = "import_error"
    THEN [stdout |-> << >>, stderr |-> <<"Traceback: ModuleNotFoundError">>, code |-> 1,
          calls |-> NoCalls]
    ELSE LET r == classify_routes(routes, e, clf)
         IN [stdout |-> r.out \o <<NL>>, stderr |-> r.log, code |-> 0, calls |-> r.calls]

(***************************************************************************)
(* The server: state of the request handlers and of their subprocesses     *)
(***************************************************************************)
VARIABLES
    body,        \* req.body of each request
    phase,       \* "idle" (not received), "waiting" (spawned), "done"
    proc,        \* subprocess: "none", "running", "exited", "killed"
    code,        \* exit code of an exited subprocess
    env,         \* what the script met when it ran
    clf,         \* the classifier at the script's reference time
    calls,       \* what the script loaded, how often it called the classifier
    stdoutPipe,  \* written by the script, not yet read by the server
    stderrPipe,
    result,      \* let result = ''
    error,       \* let error = ''
    timer,       \* "unset", "armed", "cleared", "fired"
    deadline,    \* when the armed timer is due
    resp,        \* the response written to the client
    now,         \* the clock, ms
    crashed,     \* an exception left a callback uncaught
    indicators,  \* input of the aggregator's own check
    rawScore,    \* its output, -1 before it ran
    \* a client (the web page or the extension) and its handleRoutesFound
    client,             \* "page" or "ext"
    found,              \* number of routes handed to handleRoutesFound, -1: none yet
    inflight,           \* the axios.post is awaited
    responseData,       \* response.data of the answer that arrived
    routes,             \* useState: the route list stored for display
    routesWithLabels,   \* the handler's local routesWithLabels
    safetyLoading,
    apiError,           \* "" for null
    loading,            \* the page's loading flag
    expandedRouteIndex, \* the extension's expanded route, -1 for null
    \* one score and what the client derives from it
    scoreIn,
    derived,
    \* a batch scored twice, as submitted and permuted
    permBatch,
    permPi,
    permClf,
    permOut,
    \* the feature rows the script builds for one batch
    featBatch,          \* the routes of the batch
    featNow,            \* datetime.now() of the run
    featRows,           \* new_df of every route, << >> before the run
    \* the web page with its RoutingMachine, routes known by the pair of
    \* source and destination they were computed for
    pgPair,             \* number of the current pair, counted from 1; 0 before the first
    pgMounted,          \* source and destination are set: RoutingMachine is mounted
    pgControls,         \* routing controls of the current pair that have not reported
    rmPendingRoutes,    \* RoutingMachine: useState pendingRoutes
    rmRequestCompleted, \* RoutingMachine: requestCompletedRef.current
    rmRoutes,           \* RoutingMachine: useState routes
    pgScoring,          \* scoring requests in flight, per pair of their routes
    pgRoutes,           \* MyPage: useState routes
    pgLoading,
    pgSafetyLoading,
    pgApiError,         \* apiError is not null
    \* the Map component of the extension
    mapStage,           \* "idle", "importing", "fetching", "done"
    mapSettled,         \* route fetches that have settled
    mapRoutes,          \* useState routes: the variants found, as they arrived
    mapPendingRoutes,   \* useState pendingRoutes
    mapRequestCompleted,\* requestCompletedRef.current
    mapIsLoading

srvVars == <<body, phase, proc, code, env, clf, calls, stdoutPipe, stderrPipe, result,
             error, timer, deadline, resp, now, crashed>>
aggVars == <<indicators, rawScore>>
cliVars == <<client, found, inflight, responseData, routes, routesWithLabels, safetyLoading,
             apiError, loading, expandedRouteIndex>>
scoreVars == <<scoreIn, derived>>
permVars == <<permBatch, permPi, permClf, permOut>>
\* everything but the server
featVars == <<featBatch, featNow, featRows>>
pageVars == <<pgPair, pgMounted, pgControls, rmPendingRoutes, rmRequestCompleted, rmRoutes,
              pgScoring, pgRoutes, pgLoading, pgSafetyLoading, pgApiError>>
mapVars == <<mapStage, mapSettled, mapRoutes, mapPendingRoutes, mapRequestCompleted,
             mapIsLoading>>
moreVars == <<featVars, pageVars, mapVars>>
pureVars == <<aggVars, cliVars, scoreVars, permVars, moreVars>>
vars == <<srvVars, pureVars>>

Response(status, json) == [status |-> status, json |-> json]
NoResp == Response(0, JNull)

\* a variant without the validation
is_array_unchecked(b) == TRUE

\* if ( !Array.isArray( routes ) )
is_array(b) == b.isArray

invalid_response == Response(400, JErr("Request body must be an array of routes"))
timeout_response == Response(500, JErr("Processing timed out"))

\* the 'close' callback's answer, from the exit code (ok = FALSE: null or not 0)
\* and the accumulated result and error
close_response(ok, res, err) ==
    IF ~ok
    THEN Response(500, JErrDet("Failed to process routes",
                               IF err = << >> THEN <<"Unknown error">> ELSE err))
    ELSE IF res = << >> \/ trim(res) = << >>
    THEN Response(500, JErr("No result returned from model"))
    ELSE LET parsedResult == JSONparse(res) IN
         IF parsedResult.ok
         THEN Response(200, parsedResult.val)
         ELSE Response(500, JErrDet("Invalid output from model", <<"Unexpected token">>))

\* setTimeout( ..., 30000 ) is due
timer_due(r) == timer[r] = "armed" /\ now >= deadline[r]

\* 'close' is emitted once the process has ended and its streams are closed
close_ready(r) ==
    /\ proc[r] \in {"exited", "killed"}
    /\ stdoutPipe[r] = << >>
    /\ stderrPipe[r] = << >>

\* res.status( s ).json( j ): throws ERR_HTTP_HEADERS_SENT on a second answer
Send(r, answer) ==
    IF resp[r] = NoResp
    THEN resp' = [resp EXCEPT ![r] = answer] /\ crashed' = crashed
    ELSE resp' = resp /\ crashed' = TRUE

ServerInit ==
    /\ body = [r \in Reqs |-> ObjectBody]
    /\ phase = [r \in Reqs |-> "idle"]
    /\ proc = [r \in Reqs |-> "none"]
    /\ code = [r \in Reqs |-> 0]
    /\ env = [r \in Reqs |-> "ok"]
    /\ clf = [r \in Reqs |-> NoClassifier]
    /\ calls = [r \in Reqs |-> NoCalls]
    /\ stdoutPipe = [r \in Reqs |-> << >>]
    /\ stderrPipe = [r \in Reqs |-> << >>]
    /\ result = [r \in Reqs |-> << >>]
    /\ error = [r \in Reqs |-> << >>]
    /\ timer = [r \in Reqs |-> "unset"]
    /\ deadline = [r \in Reqs |-> 0]
    /\ resp = [r \in Reqs |-> NoResp]
    /\ now = 0
    /\ crashed = FALSE

AggIdle == indicators = << >> /\ rawScore = -1

NoDerived == [safetyStatus |-> "", normalizedScore |-> -1]

ClientIdle ==
    /\ client = "page"
    /\ found = -1
    /\ inflight = FALSE
    /\ responseData = JNull
    /\ routes = << >>
    /\ routesWithLabels = << >>
    /\ safetyLoading = FALSE
    /\ apiError = ""
    /\ loading = FALSE
    /\ expandedRouteIndex = -1

ScoreIdle == scoreIn = 0 /\ derived = NoDerived

PermIdle ==
    /\ permBatch = << >>
    /\ permPi = << >>
    /\ permClf = NoClassifier
    /\ permOut = << >>

NoTime == [year |-> 0, month |-> 0, day |-> 0, hour |-> 0, minute |-> 0, second |-> 0]

FeatIdle ==
    /\ featBatch = << >>
    /\ featNow = NoTime
    /\ featRows = << >>

MaxPairs == 3               \* pairs of source and destination the user sets
totalRoutingControls == 12  \* ROUTE_OPTIONS.length * 4
Pairs == 1 .. MaxPairs

\* a route list: the pair it was computed for (0 with no route), scored or not
NoRoutes == [pair |-> 0, scored |-> FALSE]
RoutesOf(g, scored) == [pair |-> g, scored |-> scored]

PageIdle ==
    /\ pgPair = 0
    /\ pgMounted = FALSE
    /\ pgControls = 0
    /\ rmPendingRoutes = totalRoutingControls
    /\ rmRequestCompleted = FALSE
    /\ rmRoutes = NoRoutes
    /\ pgScoring = [g \in Pairs |-> 0]
    /\ pgRoutes = NoRoutes
    /\ pgLoading = FALSE
    /\ pgSafetyLoading = FALSE
    /\ pgApiError = FALSE

ROUTE_VARIANTS == 2         \* const ROUTE_VARIANTS = 2
DETOUR_POINTS == 2          \* detourPoints.length

MapIdle ==
    /\ mapStage = "idle"
    /\ mapSettled = 0
    /\ mapRoutes = << >>
    /\ mapPendingRoutes = ROUTE_VARIANTS + 1
    /\ mapRequestCompleted = FALSE
    /\ mapIsLoading = FALSE

MoreIdle == FeatIdle /\ PageIdle /\ MapIdle

Init == ServerInit /\ AggIdle /\ ClientIdle /\ ScoreIdle /\ PermIdle /\ MoreIdle

\* app.post( '/classify_route', ... ): validate, spawn, register the
\* callbacks, arm the timer, write the routes to stdin
Receive(r, b) ==
    /\ ~crashed
    /\ phase[r] = "idle"
    /\ body' = [body EXCEPT ![r] = b]
    /\ IF ~is_array(b)
       THEN /\ Send(r, invalid_response)
            /\ phase' = [phase EXCEPT ![r] = "done"]
            /\ UNCHANGED <<proc, timer, deadline>>
       ELSE /\ proc' = [proc EXCEPT ![r] = "running"]
            /\ timer' = [timer EXCEPT ![r] = "armed"]
            /\ deadline' = [deadline EXCEPT ![r] = now + TIMEOUT_MS]
            /\ phase' = [phase EXCEPT ![r] = "waiting"]
            /\ UNCHANGED <<resp, crashed>>
    /\ UNCHANGED <<code, env, clf, calls, stdoutPipe, stderrPipe, result, error, now, pureVars>>

\* the subprocess runs the script to its end
PyRun(r, e, c) ==
    /\ ~crashed
    /\ proc[r] = "running"
    /\ LET run == script_main(body[r].routes, e, c) IN
       /\ stdoutPipe' = [stdoutPipe EXCEPT ![r] = run.stdout]
       /\ stderrPipe' = [stderrPipe EXCEPT ![r] = run.stderr]
       /\ code' = [code EXCEPT ![r] = run.code]
       /\ calls' = [calls EXCEPT ![r] = run.calls]
    /\ env' = [env EXCEPT ![r] = e]
    /\ clf' = [clf EXCEPT ![r] = c]
    /\ proc' = [proc EXCEPT ![r] = "exited"]
    /\ UNCHANGED <<body, phase, result, error, timer, deadline, resp, now, crashed, pureVars>>

\* a variant whose result is one buffer shared by the requests in flight
StdoutData_shared(r, k) ==
    /\ ~crashed
    /\ phase[r] = "waiting"
    /\ k \in 1 .. Len(stdoutPipe[r])
    /\ result' = [q \in Reqs |-> IF phase[q] = "waiting"
                                 THEN result[q] \o SubSeq(stdoutPipe[r], 1, k)
                                 ELSE result[q]]
    /\ stdoutPipe' = [stdoutPipe EXCEPT ![r] = SubSeq(@, k + 1, Len(@))]
    /\ UNCHANGED <<body, phase, proc, code, env, clf, calls, stderrPipe, error, timer,
                   deadline, resp, now, crashed, pureVars>>

\* pythonProcess.stdout.on( 'data', ... ): one chunk of k tokens
StdoutData(r, k) ==
    /\ ~crashed
    /\ phase[r] = "waiting"
    /\ k \in 1 .. Len(stdoutPipe[r])
    /\ result' = [result EXCEPT ![r] = @ \o SubSeq(stdoutPipe[r], 1, k)]
    /\ stdoutPipe' = [stdoutPipe EXCEPT ![r] = SubSeq(@, k + 1, Len(@))]
    /\ UNCHANGED <<body, phase, proc, code, env, clf, calls, stderrPipe, error, timer,
                   deadline, resp, now, crashed, pureVars>>

\* pythonProcess.stderr.on( 'data', ... )
StderrData(r) ==
    /\ ~crashed
    /\ phase[r] = "waiting"
    /\ stderrPipe[r] # << >>
    /\ error' = [error EXCEPT ![r] = @ \o stderrPipe[r]]
    /\ stderrPipe' = [stderrPipe EXCEPT ![r] = << >>]
    /\ UNCHANGED <<body, phase, proc, code, env, clf, calls, stdoutPipe, result, timer,
                   deadline, resp, now, crashed, pureVars>>

\* a variant whose callback kills the subprocess and leaves the answer to 'close'
TimerFire_kill_only(r) ==
    /\ ~crashed
    /\ timer_due(r)
    /\ timer' = [timer EXCEPT ![r] = "fired"]
    /\ proc' = [proc EXCEPT ![r] = IF @ = "running" THEN "killed" ELSE @]
    /\ UNCHANGED <<body, phase, code, env, clf, calls, stdoutPipe, stderrPipe, result,
                   error, deadline, now, resp, crashed, pureVars>>

\* the timer's callback: kill the subprocess and answer
TimerFire(r) ==
    /\ ~crashed
    /\ timer_due(r)
    /\ timer' = [timer EXCEPT ![r] = "fired"]
    /\ proc' = [proc EXCEPT ![r] = IF @ = "running" THEN "killed" ELSE @]
    /\ Send(r, timeout_response)
    /\ UNCHANGED <<body, phase, code, env, clf, calls, stdoutPipe, stderrPipe, result,
                   error, deadline, now, pureVars>>

\* pythonProcess.on( 'close', ... )
OnClose(r) ==
    /\ ~crashed
    /\ phase[r] = "waiting"
    /\ close_ready(r)
    /\ timer' = [timer EXCEPT ![r] = IF @ = "armed" THEN "cleared" ELSE @]
    /\ Send(r, close_response(proc[r] = "exited" /\ code[r] = 0, result[r], error[r]))
    /\ phase' = [phase EXCEPT ![r] = "done"]
    /\ UNCHANGED <<body, proc, code, env, clf, calls, stdoutPipe, stderrPipe, result,
                   error, deadline, now, pureVars>>

\* time passes, but not beyond an armed timer's deadline
Tick ==
    /\ ~crashed
    /\ \E r \in Reqs : timer[r] = "armed"
    /\ \A r \in Reqs : ~timer_due(r)
    /\ now' = now + TICK_MS
    /\ UNCHANGED <<body, phase, proc, code, env, clf, calls, stdoutPipe, stderrPipe,
                   result, error, timer, deadline, resp, crashed, pureVars>>

Next ==
    \/ \E r \in Served, b \in Bodies : Receive(r, b)
    \/ \E r \in Served, e \in EnvOutcomes, c \in Classifiers :
           /\ (e # "ok" => c = NoClassifier)
           /\ PyRun(r, e, c)
    \/ \E r \in Served, k \in 1 .. (MaxRoutes + 3) : StdoutData(r, k)
    \/ \E r \in Served : StderrData(r)
    \/ \E r \in Served : TimerFire(r)
    \/ \E r \in Served : OnClose(r)
    \/ Tick

Spec == Init /\ [][Next]_vars

\* The event loop runs every callback that is due and the clock advances;
\* nothing makes the subprocess finish.
Fairness ==
    /\ WF_vars(Tick)
    /\ \A r \in Served :
          /\ WF_vars(TimerFire(r))
          /\ WF_vars(OnClose(r))
          /\ WF_vars(StderrData(r))
          /\ WF_vars(\E k \in 1 .. (MaxRoutes + 3) : StdoutData(r, k))

SpecLive == Init /\ [][Next]_vars /\ Fairness

(***************************************************************************)
(* Several requests in flight: every request slot is served, the slots are *)
(* numbered in the order of arrival                                        *)
(***************************************************************************)
ConcBodies == {ArrayBody(<<<<PA>>>>)}
ChunkSizes == {1, 2}
ConcClassifiers == {[l \in GoodLocations |-> x] : x \in {4, MAX_INDICATOR}}
ConcEnvs == {"ok", "no_model"}

NextConc ==
    \/ \E r \in Reqs, b \in ConcBodies :
           /\ \A q \in 1 .. (r - 1) : phase[q] # "idle"
           /\ Receive(r, b)
    \/ \E r \in Reqs, e \in ConcEnvs, c \in ConcClassifiers \cup {NoClassifier} :
           /\ (e = "ok" <=> c \in ConcClassifiers)
           /\ PyRun(r, e, c)
    \/ \E r \in Reqs, k \in ChunkSizes : StdoutData(r, k)
    \/ \E r \in Reqs : StderrData(r)
    \/ \E r \in Reqs : TimerFire(r)
    \/ \E r \in Reqs : OnClose(r)
    \/ Tick

SpecConc == Init /\ [][NextConc]_vars

(***************************************************************************)
(* The aggregator on its own: every indicator vector of 1 .. MaxLen points *)
(***************************************************************************)
InitAgg ==
    /\ ServerInit /\ ClientIdle /\ ScoreIdle /\ PermIdle /\ MoreIdle
    /\ indicators \in UNION {[1 .. n -> Indicators] : n \in 1 .. MaxLen}
    /\ rawScore = -1

Aggregate ==
    /\ rawScore = -1
    /\ rawScore' = aggregate(indicators)
    /\ UNCHANGED <<srvVars, indicators, cliVars, scoreVars, permVars, moreVars>>

NextAgg == Aggregate

SpecAgg == InitAgg /\ [][NextAgg]_vars

(***************************************************************************)
(* The clients: handleRoutesFound of the web page (walksafe/app/page.tsx)  *)
(* and of the extension.  Client numbers are decimals in units of 1e-5.    *)
(***************************************************************************)
MaxTenths == 130        \* scores of the per-score check go up to MaxTenths / 10
MaxBatch == 4           \* routes handed to handleRoutesFound
SAFE_MAX == 30000       \* score <= 0.3
MODERATE_MAX == 100000  \* score <= 1.0
SCORE_RANGE == 900000   \* score / 9
EPSILON == 100          \* < 0.001
PERCENT == 100          \* 100 - ( score / 9 * 100 )

Abs(x) == IF x < 0 THEN -x ELSE x
Max(a, b) == IF a >= b THEN a ELSE b
Min(a, b) == IF a <= b THEN a ELSE b

\* typeof safetyScores === 'number' ? safetyScores
\*   : ( Array.isArray( safetyScores ) ? safetyScores[ index ] || 0 : 0 )
score_at(safetyScores, index) ==
    IF safetyScores.t = "num" THEN safetyScores.num
    ELSE IF safetyScores.t = "arr"
    THEN IF index <= Len(safetyScores.arr) THEN safetyScores.arr[index] ELSE 0
    ELSE 0

\* a variant whose lower bucket excludes its boundary
safety_status_strict(score) ==
    IF score < SAFE_MAX THEN "safe"
    ELSE IF score < MODERATE_MAX THEN "moderate"
    ELSE "unsafe"

\* if ( score <= 0.3 ) ... else if ( score <= 1.0 ) ... else ...
safety_status(score) ==
    IF score <= SAFE_MAX THEN "safe"
    ELSE IF score <= MODERATE_MAX THEN "moderate"
    ELSE "unsafe"

\* a variant that grows with the score
normalized_score_rising(score) ==
    Max(0, Min(PERCENT * SCORE_RANGE, PERCENT * score)) \div PERCENT

\* a variant without the lower clamp
normalized_score_unclamped(score) ==
    Min(PERCENT * SCORE_RANGE, PERCENT * SCORE_RANGE - PERCENT * score) \div PERCENT

\* Math.max( 0, Math.min( 100, 100 - ( score / 9 * 100 ) ) ) / 100, as the
\* numerator of a fraction over SCORE_RANGE
normalized_score(score) ==
    Max(0, Min(PERCENT * SCORE_RANGE, PERCENT * SCORE_RANGE - PERCENT * score)) \div PERCENT

\* a route object of the client; hasSafety = FALSE: no safety fields
Unscored(i) ==
    [id |-> i, hasSafety |-> FALSE, rawSafetyScore |-> 0, safetyScore |-> 0,
     safetyStatus |-> "undefined", safetyLabel |-> "undefined"]

\* newRoutes / foundRoutes: n routes, known by their position
found_routes(n) == [i \in 1 .. n |-> Unscored(i)]

\* newRoutes.map( ( route, index ) => ( { ...route, rawSafetyScore, safetyScore, safetyStatus } ) )
routes_with_safety(n, data) ==
    [i \in 1 .. n |->
        LET score == score_at(data, i) IN
        [id |-> i, hasSafety |-> TRUE, rawSafetyScore |-> score,
         safetyScore |-> normalized_score(score),
         safetyStatus |-> safety_status(score), safetyLabel |-> "undefined"]]

\* a variant that puts a route before the routes of equal score
RECURSIVE insert_before_equal(_, _)
insert_before_equal(sorted, x) ==
    IF sorted = << >> THEN <<x>>
    ELSE IF Head(sorted).rawSafetyScore - x.rawSafetyScore < 0
    THEN <<Head(sorted)>> \o insert_before_equal(Tail(sorted), x)
    ELSE <<x>> \o sorted

\* one merge step of the stable sort: x goes behind every route a with
\* ( a.rawSafetyScore || 0 ) - ( x.rawSafetyScore || 0 ) <= 0
RECURSIVE insert_sorted(_, _)
insert_sorted(sorted, x) ==
    IF sorted = << >> THEN <<x>>
    ELSE IF Head(sorted).rawSafetyScore - x.rawSafetyScore <= 0
    THEN <<Head(sorted)>> \o insert_sorted(Tail(sorted), x)
    ELSE <<x>> \o sorted

\* [ ...routesWithSafety ].sort( ( a, b ) => ( a.rawSafetyScore || 0 ) - ( b.rawSafetyScore || 0 ) )
RECURSIVE sorted_routes(_)
sorted_routes(rs) ==
    IF rs = << >> THEN << >>
    ELSE insert_sorted(sorted_routes(SubSeq(rs, 1, Len(rs) - 1)), rs[Len(rs)])

near(a, b) == Abs(a - b) < EPSILON

\* a variant that looks for the last route before it looks for the first
relative_label_last_first(sortedRoutes, index, prevScore) ==
    LET score == sortedRoutes[index].rawSafetyScore IN
    IF index = Len(sortedRoutes)
    THEN IF near(score, prevScore) THEN "Equally Safe" ELSE "Least Safe Option"
    ELSE IF index = 1
    THEN IF Len(sortedRoutes) > 1 /\ near(score, sortedRoutes[2].rawSafetyScore)
         THEN "Equally Safe"
         ELSE "Safest Option"
    ELSE IF near(score, prevScore) THEN "Equally Safe"
    ELSE IF near(score, sortedRoutes[index + 1].rawSafetyScore) THEN "Equally Safe"
    ELSE "Safer Alternative"

\* a variant whose first route is always the safest option
relative_label_first_untied(sortedRoutes, index, prevScore) ==
    LET score == sortedRoutes[index].rawSafetyScore IN
    IF index = 1 THEN "Safest Option"
    ELSE IF index = Len(sortedRoutes)
    THEN IF near(score, prevScore) THEN "Equally Safe" ELSE "Least Safe Option"
    ELSE IF near(score, prevScore) THEN "Equally Safe"
    ELSE IF near(score, sortedRoutes[index + 1].rawSafetyScore) THEN "Equally Safe"
    ELSE "Safer Alternative"

\* a variant whose last route is always the least safe option
relative_label_last_untied(sortedRoutes, index, prevScore) ==
    LET score == sortedRoutes[index].rawSafetyScore IN
    IF index = 1
    THEN IF Len(sortedRoutes) > 1 /\ near(score, sortedRoutes[2].rawSafetyScore)
         THEN "Equally Safe"
         ELSE "Safest Option"
    ELSE IF index = Len(sortedRoutes) THEN "Least Safe Option"
    ELSE IF near(score, prevScore) THEN "Equally Safe"
    ELSE IF near(score, sortedRoutes[index + 1].rawSafetyScore) THEN "Equally Safe"
    ELSE "Safer Alternative"

\* a variant whose middle routes are compared with the previous route only
relative_label_previous_only(sortedRoutes, index, prevScore) ==
    LET score == sortedRoutes[index].rawSafetyScore IN
    IF index = 1
    THEN IF Len(sortedRoutes) > 1 /\ near(score, sortedRoutes[2].rawSafetyScore)
         THEN "Equally Safe"
         ELSE "Safest Option"
    ELSE IF index = Len(sortedRoutes)
    THEN IF near(score, prevScore) THEN "Equally Safe" ELSE "Least Safe Option"
    ELSE IF near(score, prevScore) THEN "Equally Safe"
    ELSE "Safer Alternative"

\* the body of sortedRoutes.map( ( route, index ) => ... ): the label of the
\* route at index (1 is the first), prevScore being the score before it
relative_label(sortedRoutes, index, prevScore) ==
    LET score == sortedRoutes[index].rawSafetyScore IN
    IF index = 1
    THEN IF Len(sortedRoutes) > 1 /\ near(score, sortedRoutes[2].rawSafetyScore)
         THEN "Equally Safe"
         ELSE "Safest Option"
    ELSE IF index = Len(sortedRoutes)
    THEN IF near(score, prevScore) THEN "Equally Safe" ELSE "Least Safe Option"
    ELSE IF near(score, prevScore) THEN "Equally Safe"
    ELSE IF near(score, sortedRoutes[index + 1].rawSafetyScore) THEN "Equally Safe"
    ELSE "Safer Alternative"

\* let prevScore = -1; sortedRoutes.map( ... prevScore = score ... )
RECURSIVE label_scan(_, _, _)
label_scan(sortedRoutes, index, prevScore) ==
    IF index > Len(sortedRoutes) THEN << >>
    ELSE <<[sortedRoutes[index] EXCEPT
               !.safetyLabel = relative_label(sortedRoutes, index, prevScore)]>>
         \o label_scan(sortedRoutes, index + 1, sortedRoutes[index].rawSafetyScore)

routes_with_labels(sortedRoutes) == label_scan(sortedRoutes, 1, -1)

\* the setRoutes calls of the success path, the last one decides
stored_routes(c, sortedRoutes, labelled) ==
    IF c = "page" THEN sortedRoutes ELSE labelled

(***************************************************************************)
(* One score on its own: status and normalized score                       *)
(***************************************************************************)
ScoreSamples == {g * 10000 + d : g \in (0 - 2) .. MaxTenths, d \in {0, 1}}

InitScore ==
    /\ ServerInit /\ AggIdle /\ ClientIdle /\ PermIdle /\ MoreIdle
    /\ scoreIn \in ScoreSamples
    /\ derived = NoDerived

Derive ==
    /\ derived = NoDerived
    /\ derived' = [safetyStatus |-> safety_status(scoreIn),
                   normalizedScore |-> normalized_score(scoreIn)]
    /\ UNCHANGED <<srvVars, aggVars, cliVars, permVars, moreVars, scoreIn>>

NextScore == Derive

SpecScore == InitScore /\ [][NextScore]_vars

(***************************************************************************)
(* handleRoutesFound, from the routes found to the stored route list       *)
(***************************************************************************)
Clients == {"page", "ext"}
RankScores == {10000, 20000, 20050, 20100, 50000, 80000, 90000, 120000}

\* what the server answers with status 200 to a batch of n routes
ServerAnswers(n) ==
    {JErr("could not convert string to float")}
    \cup (IF n = 1 THEN {JNum(x) : x \in RankScores}
          ELSE {JArr(a) : a \in [1 .. n -> RankScores]})

InitClient ==
    /\ ServerInit /\ AggIdle /\ ScoreIdle /\ PermIdle /\ MoreIdle
    /\ client \in Clients
    /\ found = -1
    /\ inflight = FALSE
    /\ responseData = JNull
    /\ routes = << >>
    /\ routesWithLabels = << >>
    /\ safetyLoading = FALSE
    /\ apiError = ""
    /\ loading = FALSE
    /\ expandedRouteIndex = -1

\* handleLocationChange of the page, once both locations are set
LocationChange ==
    /\ client = "page"
    /\ found = -1
    /\ ~loading
    /\ routes' = << >>
    /\ apiError' = ""
    /\ loading' = TRUE
    /\ UNCHANGED <<client, found, inflight, responseData, routesWithLabels, safetyLoading,
                   expandedRouteIndex>>
    /\ UNCHANGED <<srvVars, aggVars, scoreVars, permVars, moreVars>>

\* a variant that ranks and labels the routes before the answer has arrived
RoutesFound_ranking_early(n) ==
    /\ found = -1
    /\ found' = n
    /\ loading' = FALSE
    /\ IF n > 0
       THEN /\ safetyLoading' = TRUE
            /\ apiError' = ""
            /\ inflight' = TRUE
            /\ routesWithLabels' = routes_with_labels(sorted_routes(routes_with_safety(n, JNull)))
            /\ UNCHANGED <<routes, expandedRouteIndex>>
       ELSE /\ routes' = << >>
            /\ expandedRouteIndex' = -1
            /\ UNCHANGED <<safetyLoading, apiError, inflight, routesWithLabels>>
    /\ UNCHANGED <<client, responseData>>
    /\ UNCHANGED <<srvVars, aggVars, scoreVars, permVars, moreVars>>

\* handleRoutesFound up to its await: what it does to the client's state
handleRoutesFound(n) ==
    /\ found = -1
    /\ found' = n
    /\ loading' = FALSE
    /\ IF n > 0
       THEN /\ safetyLoading' = TRUE
            /\ apiError' = ""
            /\ inflight' = TRUE
            /\ UNCHANGED <<routes, expandedRouteIndex>>
       ELSE /\ routes' = << >>
            /\ expandedRouteIndex' = -1
            /\ UNCHANGED <<safetyLoading, apiError, inflight>>
    /\ UNCHANGED <<client, responseData, routesWithLabels>>

\* handleRoutesFound with n routes, called by the map
RoutesFound(n) ==
    /\ handleRoutesFound(n)
    /\ UNCHANGED <<srvVars, aggVars, scoreVars, permVars, moreVars>>

\* the rest of the try block, once the answer has arrived, and finally
ScoringResponse(data) ==
    /\ inflight
    /\ inflight' = FALSE
    /\ responseData' = data
    /\ LET routesWithSafety == routes_with_safety(found, data)
           sortedRoutes == sorted_routes(routesWithSafety)
           labelled == routes_with_labels(sortedRoutes)
       IN /\ routesWithLabels' = labelled
          /\ routes' = stored_routes(client, sortedRoutes, labelled)
          /\ expandedRouteIndex' =
                IF client = "ext" /\ Len(labelled) > 0 THEN 0 ELSE expandedRouteIndex
    /\ safetyLoading' = FALSE
    /\ UNCHANGED <<client, found, apiError, loading>>
    /\ UNCHANGED <<srvVars, aggVars, scoreVars, permVars, moreVars>>

\* a variant of the catch block without the finally block
ScoringFailure_no_finally ==
    /\ inflight
    /\ inflight' = FALSE
    /\ apiError' = "Failed to assess route safety. Using routes without safety data."
    /\ routes' = found_routes(found)
    /\ expandedRouteIndex' = IF client = "ext" /\ found > 0 THEN 0 ELSE expandedRouteIndex
    /\ UNCHANGED <<client, found, responseData, routesWithLabels, loading, safetyLoading>>
    /\ UNCHANGED <<srvVars, aggVars, scoreVars, permVars, moreVars>>

\* the catch block (network error or a status that is not 2xx), and finally
ScoringFailure ==
    /\ inflight
    /\ inflight' = FALSE
    /\ apiError' = "Failed to assess route safety. Using routes without safety data."
    /\ routes' = found_routes(found)
    /\ expandedRouteIndex' = IF client = "ext" /\ found > 0 THEN 0 ELSE expandedRouteIndex
    /\ safetyLoading' = FALSE
    /\ UNCHANGED <<client, found, responseData, routesWithLabels, loading>>
    /\ UNCHANGED <<srvVars, aggVars, scoreVars, permVars, moreVars>>

NextClient ==
    \/ LocationChange
    \/ \E n \in 0 .. MaxBatch : RoutesFound(n)
    \/ \E n \in 1 .. MaxBatch :
           /\ n = found /\ inflight
           /\ \E data \in ServerAnswers(n) : ScoringResponse(data)
    \/ ScoringFailure

SpecClient == InitClient /\ [][NextClient]_vars

(***************************************************************************)
(* The script on a batch and on the same batch in another order            *)
(***************************************************************************)
Orders(n) == {f \in [1 .. n -> 1 .. n] : \A i, j \in 1 .. n : f[i] = f[j] => i = j}

\* the batch with the route at position pi[i] put at position i
permuted(batch, pi) == [i \in 1 .. Len(batch) |-> batch[pi[i]]]

InitPerm ==
    /\ ServerInit /\ AggIdle /\ ClientIdle /\ ScoreIdle /\ MoreIdle
    /\ permBatch \in UNION {[1 .. n -> RouteShapes] : n \in 1 .. (MaxRoutes + 1)}
    /\ permPi \in Orders(Len(permBatch))
    /\ permClf \in Classifiers
    /\ permOut = << >>

\* two runs of classify_routes at the same reference time
ScoreBoth ==
    /\ permOut = << >>
    /\ permOut' = <<JSONparse(classify_routes(permBatch, "ok", permClf).out).val,
                    JSONparse(classify_routes(permuted(permBatch, permPi), "ok", permClf).out).val>>
    /\ UNCHANGED <<srvVars, aggVars, cliVars, scoreVars, moreVars, permBatch, permPi, permClf>>

NextPerm == ScoreBoth

SpecPerm == InitPerm /\ [][NextPerm]_vars

(***************************************************************************)
(* The feature rows of one batch                                           *)
(***************************************************************************)
FeatRoutes == {<<PA>>, <<PB>>, <<PA, PB>>, <<PB, PA>>}
SampleTimes ==
    {[year |-> 2025, month |-> mo, day |-> 7, hour |-> h, minute |-> mi, second |-> 5] :
        mo \in {3, 12}, h \in {0, 9, 23}, mi \in {0, 59}}

InitFeat ==
    /\ ServerInit /\ AggIdle /\ ClientIdle /\ ScoreIdle /\ PermIdle /\ PageIdle /\ MapIdle
    /\ featBatch \in UNION {[1 .. n -> FeatRoutes] : n \in 1 .. MaxRoutes}
    /\ featNow \in SampleTimes
    /\ featRows = << >>

BuildFeatures ==
    /\ featRows = << >>
    /\ featRows' = features(featBatch, featNow)
    /\ UNCHANGED <<srvVars, aggVars, cliVars, scoreVars, permVars, pageVars, mapVars, featBatch,
                   featNow>>

NextFeat == BuildFeatures

SpecFeat == InitFeat /\ [][NextFeat]_vars

(***************************************************************************)
(* The web page: MyPage and the RoutingMachine inside its map.  A step is  *)
(* an event with the render and the effects that follow it.                *)
(***************************************************************************)
PageState == [routes |-> pgRoutes, loading |-> pgLoading, safetyLoading |-> pgSafetyLoading,
              apiError |-> pgApiError, scoring |-> pgScoring]

\* handleLocationChange, source and destination being set after it
handle_location_change(st) ==
    [st EXCEPT !.routes = NoRoutes, !.apiError = FALSE, !.loading = TRUE]

\* handleRoutesFound( newRoutes ) up to its await
handle_routes_found(st, newRoutes) ==
    IF newRoutes.pair # 0
    THEN [st EXCEPT !.loading = FALSE, !.safetyLoading = TRUE, !.apiError = FALSE,
                    !.scoring = [@ EXCEPT ![newRoutes.pair] = @ + 1]]
    ELSE [st EXCEPT !.loading = FALSE, !.routes = NoRoutes]

SetPage(st) ==
    /\ pgRoutes' = st.routes
    /\ pgLoading' = st.loading
    /\ pgSafetyLoading' = st.safetyLoading
    /\ pgApiError' = st.apiError
    /\ pgScoring' = st.scoring

\* the completion effect of RoutingMachine, run with the state of one render
completion_due(pending, completed) == pending = 0 /\ ~completed

\* The user sets a source or destination, both being set afterwards.  MyPage
\* renders, RoutingMachine is mounted or rendered again with the new pair,
\* and its two effects run: the first one resets the ref and asks for the
\* state to be reset, the second one runs with the state of this render.
PairChange ==
    /\ pgPair < MaxPairs
    /\ pgPair' = pgPair + 1
    /\ pgMounted' = TRUE
    /\ pgControls' = totalRoutingControls
    /\ rmPendingRoutes' = totalRoutingControls
    /\ rmRoutes' = NoRoutes
    /\ LET rendered == IF pgMounted THEN rmPendingRoutes ELSE totalRoutingControls
           due == completion_due(rendered, FALSE)
       IN /\ rmRequestCompleted' = due
          /\ SetPage(IF due THEN handle_routes_found(handle_location_change(PageState), rmRoutes)
                     ELSE handle_location_change(PageState))
    /\ UNCHANGED <<srvVars, aggVars, cliVars, scoreVars, permVars, featVars, mapVars>>

\* 'routesfound' (with or without a route) or 'routingerror' of one control,
\* then the completion effect
ControlReport(hasRoute) ==
    /\ pgMounted
    /\ pgControls > 0
    /\ pgControls' = pgControls - 1
    /\ rmPendingRoutes' = rmPendingRoutes - 1
    /\ rmRoutes' = IF hasRoute THEN RoutesOf(pgPair, FALSE) ELSE rmRoutes
    /\ IF completion_due(rmPendingRoutes', rmRequestCompleted)
       THEN /\ rmRequestCompleted' = TRUE
            /\ SetPage(handle_routes_found(PageState, rmRoutes'))
       ELSE UNCHANGED <<rmRequestCompleted, pgRoutes, pgLoading, pgSafetyLoading, pgApiError,
                        pgScoring>>
    /\ UNCHANGED <<pgPair, pgMounted>>
    /\ UNCHANGED <<srvVars, aggVars, cliVars, scoreVars, permVars, featVars, mapVars>>

\* the rest of handleRoutesFound: the answer (ok) or the failure of the
\* scoring request made for the routes of pair g
ScoringSettled(g, ok) ==
    /\ pgScoring[g] > 0
    /\ pgScoring' = [pgScoring EXCEPT ![g] = @ - 1]
    /\ pgRoutes' = RoutesOf(g, ok)
    /\ pgApiError' = IF ok THEN pgApiError ELSE TRUE
    /\ pgSafetyLoading' = FALSE
    /\ UNCHANGED <<pgPair, pgMounted, pgControls, rmPendingRoutes, rmRequestCompleted, rmRoutes,
                   pgLoading>>
    /\ UNCHANGED <<srvVars, aggVars, cliVars, scoreVars, permVars, featVars, mapVars>>

\* the Reset All button: source and destination are null, the map unmounts
\* RoutingMachine
ResetAll ==
    /\ pgMounted
    /\ pgMounted' = FALSE
    /\ pgControls' = 0
    /\ rmPendingRoutes' = totalRoutingControls
    /\ rmRequestCompleted' = FALSE
    /\ rmRoutes' = NoRoutes
    /\ pgRoutes' = NoRoutes
    /\ pgLoading' = FALSE
    /\ pgSafetyLoading' = FALSE
    /\ pgApiError' = FALSE
    /\ UNCHANGED <<pgPair, pgScoring>>
    /\ UNCHANGED <<srvVars, aggVars, cliVars, scoreVars, permVars, featVars, mapVars>>

InitPage ==
    /\ ServerInit /\ AggIdle /\ ClientIdle /\ ScoreIdle /\ PermIdle /\ FeatIdle /\ MapIdle
    /\ PageIdle

NextPage ==
    \/ PairChange
    \/ \E hasRoute \in BOOLEAN : ControlReport(hasRoute)
    \/ \E g \in Pairs, ok \in BOOLEAN : ScoringSettled(g, ok)
    \/ ResetAll

SpecPage == InitPage /\ [][NextPage]_vars

(***************************************************************************)
(* The extension: the Map component finds the routes and hands them to     *)
(* handleRoutesFound of App.  A step is an event with the render and the   *)
(* effects that follow it.                                                 *)
(***************************************************************************)
\* [ ...routes ].sort( ... ): the main route (variant 0) first, stable
main_first(rs) ==
    SelectSeq(rs, LAMBDA v : v = 0) \o SelectSeq(rs, LAMBDA v : v # 0)

\* the effect on [sourceCoords, destCoords, travelMode]: initializeMap up to
\* its first await
MapStart ==
    /\ mapStage = "idle"
    /\ mapStage' = "importing"
    /\ mapIsLoading' = TRUE
    /\ mapRequestCompleted' = FALSE
    /\ mapPendingRoutes' = ROUTE_VARIANTS + 1
    /\ mapRoutes' = << >>
    /\ UNCHANGED <<mapSettled, cliVars>>
    /\ UNCHANGED <<srvVars, aggVars, scoreVars, permVars, featVars, pageVars>>

\* import( 'leaflet' ) settles: the map is set up and generateAllRoutes sends
\* the first fetch, or the outer catch block runs
LeafletImported(ok) ==
    /\ mapStage = "importing"
    /\ IF ok
       THEN /\ mapStage' = "fetching"
            /\ UNCHANGED <<mapIsLoading, mapPendingRoutes>>
       ELSE /\ mapStage' = "done"
            /\ mapIsLoading' = FALSE
            /\ mapPendingRoutes' = 0
    /\ UNCHANGED <<mapSettled, mapRoutes, mapRequestCompleted, cliVars>>
    /\ UNCHANGED <<srvVars, aggVars, scoreVars, permVars, featVars, pageVars>>

\* getOSRMRoute of the main route or of an alternative settles, with a route
\* (ok) or with null; after the last one pendingRoutes is set to 0, and the
\* completion effect runs
FetchSettled(ok) ==
    /\ mapStage = "fetching"
    /\ mapSettled' = mapSettled + 1
    /\ mapRoutes' = IF ok THEN Append(mapRoutes, mapSettled) ELSE mapRoutes
    /\ IF mapSettled' = 1 + DETOUR_POINTS
       THEN /\ mapStage' = "done"
            /\ mapPendingRoutes' = 0
            /\ mapIsLoading' = FALSE
       ELSE UNCHANGED <<mapStage, mapPendingRoutes, mapIsLoading>>
    /\ IF Len(mapRoutes') > 0 /\ mapPendingRoutes' = 0 /\ ~mapRequestCompleted
       THEN /\ mapRequestCompleted' = TRUE
            /\ handleRoutesFound(Len(main_first(mapRoutes')))
       ELSE UNCHANGED <<mapRequestCompleted, cliVars>>
    /\ UNCHANGED <<srvVars, aggVars, scoreVars, permVars, featVars, pageVars>>

InitMap ==
    /\ ServerInit /\ AggIdle /\ ScoreIdle /\ PermIdle /\ FeatIdle /\ PageIdle /\ MapIdle
    /\ client = "ext"
    /\ found = -1
    /\ inflight = FALSE
    /\ responseData = JNull
    /\ routes = << >>
    /\ routesWithLabels = << >>
    /\ safetyLoading = FALSE
    /\ apiError = ""
    /\ loading = FALSE
    /\ expandedRouteIndex = -1

NextMap ==
    \/ MapStart
    \/ \E ok \in BOOLEAN : LeafletImported(ok)
    \/ \E ok \in BOOLEAN : FetchSettled(ok)
    \/ \E n \in 1 .. (1 + DETOUR_POINTS) :
           /\ n = found /\ inflight
           /\ \E data \in ServerAnswers(n) : ScoringResponse(data)
    \/ ScoringFailure

\* Every promise settles: the import, each fetch and the scoring request.
FairnessMap ==
    /\ WF_vars(MapStart)
    /\ WF_vars(\E ok \in BOOLEAN : LeafletImported(ok))
    /\ WF_vars(\E ok \in BOOLEAN : FetchSettled(ok))
    /\ WF_vars(ScoringFailure \/ \E n \in 1 .. (1 + DETOUR_POINTS) :
                                    \E data \in ServerAnswers(n) : ScoringResponse(data))

SpecMap == InitMap /\ [][NextMap]_vars /\ FairnessMap

(***************************************************************************)
(* Vocabulary of the properties                                            *)
(***************************************************************************)
Answered(r) == resp[r] # NoResp
\* the 'close' callback wrote the answer (not the validation, not the timer)
AnsweredOnClose(r) == Answered(r) /\ phase[r] = "done" /\ timer[r] = "cleared"
Batch(r) == body[r].routes
Scorable(route) == Len(route) >= 1 /\ \A i \in 1 .. Len(route) : parses(route[i])
AllScorable(r) == \A i \in 1 .. Len(Batch(r)) : Scorable(Batch(r)[i])
\* the per-point indicators of the i-th route of request r
IndicatorsOf(r, i) ==
    [j \in 1 .. Len(Batch(r)[i]) |-> clf[r][location(Batch(r)[i][j])]]
\* x (units of 1e-4) is sum(ind) / (n * 10) rounded to 4 decimal digits
IsRawScore(x, ind) ==
    2 * Abs(x * Len(ind) * 10 - sum(ind) * 10000) <= Len(ind) * 10
ErrorObject(j) == j.t = "obj" /\ j.err # ""
\* j holds one score per route of r, in submission order
ScoresInOrder(r, j) ==
    /\ j.t = "arr"
    /\ Len(j.arr) = Len(Batch(r))
    /\ \A i \in 1 .. Len(Batch(r)) : IsRawScore(j.arr[i], IndicatorsOf(r, i))
SingleScore(r, j) ==
    /\ j.t = "num"
    /\ Len(Batch(r)) = 1
    /\ IsRawScore(j.num, IndicatorsOf(r, 1))

(***************************************************************************)
(* C1: when every route of an array body scores, the success response is   *)
(* the bare score for N = 1 and otherwise an array of N scores, the i-th   *)
(* being the rawScore of the i-th submitted route.                         *)
(***************************************************************************)
C1_SuccessResponse ==
    \A r \in Reqs :
        (/\ resp[r].status = 200
         /\ body[r].isArray /\ env[r] = "ok" /\ AllScorable(r))
        => IF Len(Batch(r)) = 1
           THEN SingleScore(r, resp[r].json)
           ELSE ScoresInOrder(r, resp[r].json)

\* a two-route batch answered with two different scores
C1_Witness ==
    \E r \in Reqs :
        /\ resp[r].status = 200 /\ env[r] = "ok" /\ AllScorable(r)
        /\ Len(Batch(r)) = 2
        /\ resp[r].json.t = "arr" /\ Len(resp[r].json.arr) = 2
        /\ resp[r].json.arr[1] # resp[r].json.arr[2]

(***************************************************************************)
(* C2: whatever is answered is either a complete result (one score per     *)
(* submitted route, in submission order) or a single error object; never   *)
(* an array with fewer entries or with the scores of some routes only.     *)
(***************************************************************************)
C2_CompleteOrError ==
    \A r \in Reqs :
        Answered(r) =>
            \/ ErrorObject(resp[r].json)
            \/ /\ body[r].isArray /\ AllScorable(r)
               /\ \/ ScoresInOrder(r, resp[r].json)
                  \/ SingleScore(r, resp[r].json)

\* a batch whose first route scores and whose second does not, answered
C2_Witness ==
    \E r \in Reqs :
        /\ AnsweredOnClose(r) /\ env[r] = "ok"
        /\ Len(Batch(r)) = 2
        /\ Scorable(Batch(r)[1]) /\ ~Scorable(Batch(r)[2])
        /\ ErrorObject(resp[r].json)

(***************************************************************************)
(* C3: a failure of one route does not abort the batch: the answer still   *)
(* has one entry per route and the routes that score carry their scores.   *)
(* (The code re-raises the route's exception and answers an error object.) *)
(***************************************************************************)
C3_RouteFailureIsolated ==
    \A r \in Reqs :
        (/\ AnsweredOnClose(r) /\ env[r] = "ok" /\ body[r].isArray
         /\ \E i \in 1 .. Len(Batch(r)) : ~Scorable(Batch(r)[i]))
        => /\ ~ErrorObject(resp[r].json)
           /\ resp[r].json.t = "arr" => Len(resp[r].json.arr) = Len(Batch(r))
           /\ \A i \in 1 .. Len(Batch(r)) :
                 (Scorable(Batch(r)[i]) /\ resp[r].json.t = "arr")
                 => IsRawScore(resp[r].json.arr[i], IndicatorsOf(r, i))

(***************************************************************************)
(* C4: a request whose subprocess has not closed when the 30 s timer is    *)
(* due is answered by the timer with the timeout error (status 500, no     *)
(* scores); an unanswered request is never past its deadline, and every    *)
(* received request is eventually answered even if the script never ends.  *)
(***************************************************************************)
C4_Timeout ==
    /\ [](\A r \in Reqs :
            /\ timer[r] = "fired" => resp[r] = Response(500, JErr("Processing timed out"))
            /\ (phase[r] = "waiting" /\ ~Answered(r))
               => (timer[r] = "armed" /\ now - deadline[r] < TICK_MS)
            /\ timer[r] = "fired" => now >= deadline[r]
            /\ timer[r] # "unset" => deadline[r] >= 30000)
    /\ \A r \in Reqs : (phase[r] # "idle") ~> Answered(r)

\* the timer answered while the script had not ended
C4_Witness ==
    \E r \in Reqs :
        /\ timer[r] = "fired" /\ proc[r] = "killed"
        /\ now >= 30000
        /\ resp[r].status = 500

(***************************************************************************)
(* C5: a model or infrastructure failure during scoring (model or dataset  *)
(* not loadable, scaler or classifier raising) is answered with status     *)
(* 500 and a body with error and details.                                  *)
(* (The script prints {"error": ...} and exits 0, so the answer is 200.)   *)
(***************************************************************************)
C5_ModelFailureIs500 ==
    \A r \in Reqs :
        (/\ AnsweredOnClose(r) /\ body[r].isArray
         /\ env[r] \in {"no_model", "no_dataset"})
        => /\ resp[r].status = 500
           /\ ErrorObject(resp[r].json)
           /\ resp[r].json.det # << >>

(***************************************************************************)
(* C6: a body that is not an array is answered 400 with an error object,   *)
(* and no subprocess is spawned (and no timer armed) for it.               *)
(***************************************************************************)
C6_InvalidPayload ==
    \A r \in Reqs :
        (phase[r] # "idle" /\ ~body[r].isArray)
        => /\ resp[r].status = 400
           /\ ErrorObject(resp[r].json)
           /\ proc[r] = "none"
           /\ timer[r] = "unset"

C6_Witness ==
    \E r \in Reqs : phase[r] = "done" /\ ~body[r].isArray /\ resp[r].status = 400

C8_EmptyRouteDefault ==
    \A r \in Reqs :
        (/\ AnsweredOnClose(r) /\ env[r] = "ok" /\ body[r].isArray
         /\ \E i \in 1 .. Len(Batch(r)) : Len(Batch(r)[i]) = 0
         /\ \A i \in 1 .. Len(Batch(r)) : Len(Batch(r)[i]) = 0 \/ Scorable(Batch(r)[i]))
        => /\ ~ErrorObject(resp[r].json)
           /\ resp[r].status = 200
           /\ \A i \in 1 .. Len(Batch(r)) :
                 (Scorable(Batch(r)[i]) /\ resp[r].json.t = "arr" /\ i <= Len(resp[r].json.arr))
                 => IsRawScore(resp[r].json.arr[i], IndicatorsOf(r, i))

(***************************************************************************)
(* C9 as stated: for N >= 1 routes of exactly one point each, the result   *)
(* is an array of length N holding the i-th route's raw score at i.        *)
(***************************************************************************)
SinglePointBatch(r) ==
    /\ body[r].isArray /\ Len(Batch(r)) >= 1
    /\ \A i \in 1 .. Len(Batch(r)) : Len(Batch(r)[i]) = 1 /\ Scorable(Batch(r)[i])

C9_ArrayForAllN ==
    \A r \in Reqs :
        (SinglePointBatch(r) /\ resp[r].status = 200 /\ env[r] = "ok")
        => ScoresInOrder(r, resp[r].json)

(***************************************************************************)
(* C9 amended: for N >= 2 routes of exactly one point each the result is   *)
(* an array of length N holding the i-th route's raw score at i; for       *)
(* N = 1 it is that route's raw score as a bare number, not an array.      *)
(***************************************************************************)
C9_SinglePointBatches ==
    \A r \in Reqs :
        (SinglePointBatch(r) /\ resp[r].status = 200 /\ env[r] = "ok")
        => /\ Len(Batch(r)) >= 2 => ScoresInOrder(r, resp[r].json)
           /\ Len(Batch(r)) = 1 => (resp[r].json.t = "num" /\ SingleScore(r, resp[r].json))

\* two single-point routes with different scores, answered in order
C9_Witness ==
    \E r \in Reqs :
        /\ SinglePointBatch(r) /\ resp[r].status = 200 /\ env[r] = "ok"
        /\ Len(Batch(r)) = 2
        /\ resp[r].json.t = "arr"
        /\ resp[r].json.arr[1] > resp[r].json.arr[2]

(***************************************************************************)
(* C10: for n >= 1 indicators in 0..9 the rawScore is sum / (n * 10)       *)
(* rounded to 4 decimal digits; all 0 gives 0.0000, all 9 gives 0.9000.    *)
(***************************************************************************)
C10_Aggregate ==
    rawScore # -1 =>
        /\ IsRawScore(rawScore, indicators)
        /\ (\A i \in 1 .. Len(indicators) : indicators[i] = 0) => rawScore = 0
        /\ (\A i \in 1 .. Len(indicators) : indicators[i] = 9) => rawScore = 9000

\* a score that needs rounding: 2 / 30 = 0.0667
C10_Witness ==
    /\ rawScore = 667
    /\ Len(indicators) = 3
    /\ sum(indicators) = 2

(***************************************************************************)
(* C12: the status is safe for rawScore <= 0.3, moderate for               *)
(* 0.3 < rawScore <= 1.0 and unsafe above 1.0; so 0.3 is safe, 0.30001     *)
(* moderate, 1.0 moderate and 1.00001 unsafe.                              *)
(***************************************************************************)
C12_StatusBuckets ==
    derived # NoDerived =>
        /\ derived.safetyStatus = "safe" <=> scoreIn <= 30000
        /\ derived.safetyStatus = "moderate" <=> (scoreIn > 30000 /\ scoreIn <= 100000)
        /\ derived.safetyStatus = "unsafe" <=> scoreIn > 100000
        /\ scoreIn = 30001 => derived.safetyStatus = "moderate"
        /\ scoreIn = 100001 => derived.safetyStatus = "unsafe"

\* the boundary 0.3 itself, bucketed safe
C12_Witness == scoreIn = 30000 /\ derived.safetyStatus = "safe"

(***************************************************************************)
(* C13: the normalized score is 1 - rawScore / 9 clamped into [0, 1]:      *)
(* 1 for rawScore 0, 0 for rawScore 9, and for a rawScore outside [0, 9]   *)
(* (13, or a negative one) the nearer end, never below 0 or above 1.       *)
(***************************************************************************)
C13_NormalizedScore ==
    derived # NoDerived =>
        /\ derived.normalizedScore >= 0
        /\ derived.normalizedScore <= 900000
        /\ (scoreIn >= 0 /\ scoreIn <= 900000) => derived.normalizedScore = 900000 - scoreIn
        /\ scoreIn < 0 => derived.normalizedScore = 900000
        /\ scoreIn > 900000 => derived.normalizedScore = 0

\* rawScore 13, clamped to 0
C13_Witness == scoreIn = 1300000 /\ derived # NoDerived /\ derived.normalizedScore = 0

(***************************************************************************)
(* Ranking and labels in the clients                                       *)
(***************************************************************************)
\* the scores of a 200 answer were applied to the routes found
Scored == ~inflight /\ responseData.t \in {"num", "arr"}

\* the score the answer holds for the route found at position id
AnswerScore(id) ==
    IF responseData.t = "num" THEN responseData.num ELSE responseData.arr[id]

Ids(rs) == [i \in 1 .. Len(rs) |-> rs[i].id]

RelativeLabels == {"Safest Option", "Equally Safe", "Safer Alternative", "Least Safe Option"}

Within(i, j) == Abs(routesWithLabels[i].rawSafetyScore - routesWithLabels[j].rawSafetyScore) < 100

\* C11: the ranked list holds every scored route once, with the score the
\* answer gave it, in non-decreasing score order, and routes of equal score
\* stay in input order; the scores [0.5, 0.2, 0.2, 0.8] are ranked as the
\* second, third, first and fourth route, the first two labelled Equally Safe.
C11_StableRanking ==
    Scored =>
        /\ Len(routesWithLabels) = found
        /\ {routesWithLabels[i].id : i \in 1 .. found} = 1 .. found
        /\ \A i \in 1 .. found :
              routesWithLabels[i].rawSafetyScore = AnswerScore(routesWithLabels[i].id)
        /\ \A i \in 1 .. found : \A j \in (i + 1) .. found :
              /\ routesWithLabels[i].rawSafetyScore <= routesWithLabels[j].rawSafetyScore
              /\ routesWithLabels[i].rawSafetyScore = routesWithLabels[j].rawSafetyScore
                    => routesWithLabels[i].id < routesWithLabels[j].id
        /\ responseData = JArr(<<50000, 20000, 20000, 80000>>)
              => /\ Ids(routesWithLabels) = <<2, 3, 1, 4>>
                 /\ routesWithLabels[1].safetyLabel = "Equally Safe"
                 /\ routesWithLabels[2].safetyLabel = "Equally Safe"

C11_Witness ==
    /\ Scored
    /\ responseData = JArr(<<50000, 20000, 20000, 80000>>)
    /\ Ids(routesWithLabels) = <<2, 3, 1, 4>>

C17_StoredRankedAndLabelled ==
    Scored =>
        /\ Len(routes) = found
        /\ \A i \in 1 .. Len(routes) : \A j \in (i + 1) .. Len(routes) :
              routes[i].rawSafetyScore <= routes[j].rawSafetyScore
        /\ \A i \in 1 .. Len(routes) : routes[i].safetyLabel \in RelativeLabels

(***************************************************************************)
(* Independence of the scores from the order of the batch                  *)
(***************************************************************************)
\* the scores an output of the script holds, as a list
ScoreList(j) == IF j.t = "num" THEN <<j.num>> ELSE j.arr

\* C19: a route's score does not depend on the other routes of the batch or
\* on its position: the same batch in another order gets the same scores in
\* that other order, and no scores when the batch in the first order gets none.
C19_OrderIndependent ==
    permOut # << >> =>
        IF permOut[1].t = "obj"
        THEN permOut[2].t = "obj"
        ELSE /\ permOut[2].t # "obj"
             /\ Len(ScoreList(permOut[2])) = Len(permBatch)
             /\ \A i \in 1 .. Len(permBatch) :
                   ScoreList(permOut[2])[i] = ScoreList(permOut[1])[permPi[i]]

C19_Witness ==
    /\ permOut # << >>
    /\ permOut[1].t = "arr"
    /\ Len(permBatch) >= 3
    /\ permPi[1] # 1
    /\ permOut[1].arr[1] # permOut[1].arr[2]
    /\ permOut[2] # permOut[1]

(***************************************************************************)
(* Requests in flight at the same time                                     *)
(***************************************************************************)
\* what the subprocess spawned for request r wrote and how it ended
OwnRun(r) == script_main(Batch(r), env[r], clf[r])

\* the load of the model or of the dataset failed in the run for request r
LoadFailed(r) == proc[r] = "exited" /\ env[r] \in {"no_model", "no_dataset"}

\* C18: once the model or the dataset could not be loaded, the server does
\* not serve a further request by starting a run that loads them again.
C18_FailFast ==
    [][\A r1 \in Reqs : \A r2 \in Reqs \ {r1} :
          (LoadFailed(r1) /\ Answered(r1) /\ phase[r2] = "idle")
          => proc'[r2] = "none"]_vars

\* C20: requests in flight together share nothing: what the server has read
\* for a request and what is still unread is what that request's own
\* subprocess wrote, nothing is read for a request whose subprocess has not
\* written, and an answer given on 'close' is built from that subprocess's
\* exit code and output only; an answer of the timer is the timeout error.
C20_RequestIsolation ==
    \A r \in Reqs :
        /\ proc[r] = "exited"
              => /\ result[r] \o stdoutPipe[r] = OwnRun(r).stdout
                 /\ error[r] \o stderrPipe[r] = OwnRun(r).stderr
        /\ proc[r] # "exited" => (result[r] = << >> /\ error[r] = << >>)
        /\ AnsweredOnClose(r)
              => resp[r] = close_response(OwnRun(r).code = 0, OwnRun(r).stdout, OwnRun(r).stderr)
        /\ timer[r] = "fired" => resp[r] = timeout_response

\* two requests in flight, the output of both read in part, and different
C20_Witness ==
    \E r1 \in Reqs : \E r2 \in Reqs \ {r1} :
        /\ phase[r1] = "waiting" /\ phase[r2] = "waiting"
        /\ result[r1] # << >> /\ stdoutPipe[r1] # << >>
        /\ result[r2] # << >> /\ stdoutPipe[r2] # << >>
        /\ result[r1] # result[r2]

(***************************************************************************)
(* The features of a request                                               *)
(***************************************************************************)
\* the coordinates of a sample point, as numbers
Coordinates(p) == IF p = PA THEN <<41, -87>> ELSE <<42, -88>>

\* C22: month, hour and minute of every row of every route of a request are
\* those of the one timestamp taken for the request, and the rows of a route
\* carry the latitude and longitude of its points, in the order of the points.
C22_SharedTimestamp ==
    featRows # << >> =>
        /\ Len(featRows) = Len(featBatch)
        /\ \A r \in 1 .. Len(featBatch) :
              /\ Len(featRows[r]) = Len(featBatch[r])
              /\ \A i \in 1 .. Len(featBatch[r]) :
                    /\ featRows[r][i][1] = Coordinates(featBatch[r][i])[1]
                    /\ featRows[r][i][2] = Coordinates(featBatch[r][i])[2]
                    /\ featRows[r][i][3] = featNow.month
                    /\ featRows[r][i][4] = featNow.hour
                    /\ featRows[r][i][5] = featNow.minute

\* two routes, the second with two different points, late in the year and day
C22_Witness ==
    /\ Len(featRows) = 2
    /\ Len(featRows[2]) = 2
    /\ featRows[2][1][1] # featRows[2][2][1]
    /\ featRows[1][1][3] = 12 /\ featRows[2][2][4] = 23 /\ featRows[2][2][5] = 59

(***************************************************************************)
(* The clients: order of the steps, derived fields, failure path           *)
(***************************************************************************)
\* C21: no route of a batch is ranked or labelled while the scores of the
\* batch are pending; a ranked and labelled list exists only once the answer
\* with the scores of the whole batch has arrived, and covers the batch.
C21_RankingAfterScores ==
    /\ inflight =>
          /\ routesWithLabels = << >>
          /\ responseData = JNull
          /\ \A i \in 1 .. Len(routes) : ~routes[i].hasSafety
    /\ routesWithLabels # << >> =>
          /\ ~inflight
          /\ responseData # JNull
          /\ Len(routesWithLabels) = found

\* a batch of several routes whose scores are pending
C21_Witness == inflight /\ found >= 2 /\ safetyLoading

\* C23: a request that passed validation gets exactly one response: no
\* callback writes a response for a request that has been answered, whether
\* the timer or 'close' comes first.
C23_ExactlyOneResponse == ~crashed

\* C24: a route is marked safe only if the server returned a number of at
\* most 0.3 for it.
C24_SafeOnlyIfScored ==
    ~inflight =>
        \A i \in 1 .. Len(routesWithLabels) :
            routesWithLabels[i].safetyStatus = "safe"
            => (Scored /\ AnswerScore(routesWithLabels[i].id) <= 30000)

StatusRank(status) ==
    CASE status = "safe" -> 1 [] status = "moderate" -> 2 [] status = "unsafe" -> 3 [] OTHER -> 0

\* C26: of two routes of the ranked list, the one ranked first has a
\* normalized score that is not lower and a status that is not worse.
C26_DerivedFieldsMonotone ==
    ~inflight =>
        \A i \in 1 .. Len(routesWithLabels) : \A j \in (i + 1) .. Len(routesWithLabels) :
            /\ routesWithLabels[i].safetyScore >= routesWithLabels[j].safetyScore
            /\ StatusRank(routesWithLabels[i].safetyStatus) >= 1
            /\ StatusRank(routesWithLabels[i].safetyStatus)
                  <= StatusRank(routesWithLabels[j].safetyStatus)

\* a ranking that runs through the three statuses
C26_Witness ==
    /\ ~inflight /\ Len(routesWithLabels) >= 3
    /\ routesWithLabels[1].safetyStatus = "safe"
    /\ routesWithLabels[2].safetyStatus = "moderate"
    /\ routesWithLabels[Len(routesWithLabels)].safetyStatus = "unsafe"
    /\ routesWithLabels[1].safetyScore > routesWithLabels[2].safetyScore

\* C30: when the scoring request fails, the client stores the routes found,
\* in their order and without safety score, status or label, and sets
\* apiError; safetyLoading is false once the handler has finished, after a
\* failure as after an answer.
C30_FailurePath ==
    /\ (found > 0 /\ ~inflight) => ~safetyLoading
    /\ apiError # "" =>
          /\ apiError = "Failed to assess route safety. Using routes without safety data."
          /\ Len(routes) = found
          /\ \A i \in 1 .. found :
                /\ routes[i].id = i
                /\ ~routes[i].hasSafety
                /\ routes[i].safetyStatus = "undefined"
                /\ routes[i].safetyLabel = "undefined"

C30_Witness ==
    /\ apiError # "" /\ ~inflight /\ ~safetyLoading
    /\ Len(routes) >= 2
    /\ routes[2].id = 2 /\ ~routes[2].hasSafety

(***************************************************************************)
(* The web page and its RoutingMachine                                     *)
(***************************************************************************)
\* C27: the route list of the page never holds routes computed for a pair
\* of source and destination that is no longer the current one.
C27_NoStaleRoutes ==
    pgRoutes # NoRoutes => (pgMounted /\ pgRoutes.pair = pgPair)

\* C28: onRoutesFound has been called for the current pair only if each of
\* the routing controls created for that pair has reported.
C28_CalledAfterAllControls ==
    (pgMounted /\ rmRequestCompleted) => pgControls = 0

(***************************************************************************)
(* The extension's map                                                     *)
(***************************************************************************)
\* C29: once the fetch of the main route and of both alternatives have
\* settled, onRoutesFound is eventually called with the routes found, also
\* when no route was found.
C29_CalledOnceSettled ==
    (mapSettled = 3) ~> (found = Len(mapRoutes))
====
